---- MODULE Spec2Model ----
(***************************************************************************)
(* A model of the dual analog clock application of src/main.py: two        *)
(* AnalogClock widgets, each driven by a one-second timer, and the label   *)
(* and arrow between them that show the signed offset of the right zone    *)
(* from the left one.                                                      *)
(*                                                                         *)
(* Representation.  Python's None is the string "None".  A resolved tzinfo *)
(* is represented by the identifier it was built from.  The host's         *)
(* time-zone support is environment state: ZoneInfo (is the class          *)
(* importable), tzdata (what ZoneInfo(name) and a later lookup do for each *)
(* identifier), utcoffset (the database's current offset of each zone) and *)
(* utc_now (the host clock, as the second of the UTC day).  A handler that *)
(* reads the host clock more than once can find a later second, and later  *)
(* offsets in force, at a later read.  picked counts the selections the    *)
(* user has made in the two Spinners.                                      *)
(*                                                                         *)
(* The clock's fields hour, minute and second are doubles.  A field of the *)
(* model holds the name of the double stored, an integer:                  *)
(*   second = s            names float(s),                                 *)
(*   minute = 60 m + s     names the double of m + s / 60.0,               *)
(*   hour   = 3600 h + 60 m + s                                            *)
(*                         names the double of h + (m + s / 60.0) / 60.0,  *)
(* for h in 0..11 and m, s in 0..59; distinct names are distinct doubles.  *)
(* StoredSecond, StoredMinute and StoredHour give the doubles, bit for     *)
(* bit.  The angles of the hands are taken of the time of day a name       *)
(* stands for, in units of 1/120 degree, so that all three are integers.   *)
(***************************************************************************)
EXTENDS Integers, Sequences, FiniteSets, TLC

VARIABLES
    ZoneInfo,           \* TRUE iff "from zoneinfo import ZoneInfo" succeeded
    tzdata,             \* identifier -> "ok" | "missing" | "broken"
    utcoffset,          \* identifier -> current offset from UTC, in seconds
    utc_now,            \* host clock: second of the UTC day, 0..86399
    left_clock,         \* the AnalogClock on the left (a record of its fields)
    right_clock,        \* the AnalogClock on the right
    center_diff_label,  \* [text, color]
    center_arrow,       \* [color, direction, opacity]
    left_spinner,       \* the text of the left city Spinner
    right_spinner,      \* the text of the right city Spinner
    picked,             \* the number of selections the user has made so far
    Logger,             \* [warning, exception]: identifier -> messages logged
    raised,             \* TRUE iff a handler let an exception reach its caller
    friendly_lists      \* [tzs, called, ret]: build_friendly_lists, its argument
                        \* and, once it has been called, what it returned

vars == <<ZoneInfo, tzdata, utcoffset, utc_now, left_clock, right_clock,
          center_diff_label, center_arrow, left_spinner, right_spinner, picked,
          Logger, raised, friendly_lists>>

None == "None"

-----------------------------------------------------------------------------
(* Bounds of the model.                                                    *)

\* The host clock of Spec runs for this many seconds from StartInstant.
MaxTicks == 1
\* The first instant of Spec: the last second of a UTC day.
StartInstant == 86399
\* The log counts up to this many messages for one identifier.
MaxLogged == 5
\* The user makes at most this many selections in the Spinners.
MaxPicked == 1
\* The host clock advances by at most this many seconds while build runs.
MaxBuildSeconds == 1
\* SpecFormat draws the right zone's offset from -MaxAbsOffset..MaxAbsOffset
\* (fourteen hours, the largest offset in use, is 50400 seconds).
MaxAbsOffset == 50400
\* SpecFriendly passes build_friendly_lists the lists of at most MaxZones
\* identifiers.
MaxZones == 3

-----------------------------------------------------------------------------
(* Strings.                                                                *)

\* The one element of a one-element set.
The(S) == CHOOSE v \in S : TRUE

RECURSIVE ReplaceFrom(_, _, _, _)
\* The characters of s from index i on, with each old replaced by new.
ReplaceFrom(s, old, new, i) ==
    IF i > Len(s) THEN ""
    ELSE (IF SubSeq(s, i, i) = old THEN new ELSE SubSeq(s, i, i))
         \o ReplaceFrom(s, old, new, i + 1)

\* str.replace(old, new) for a one-character old.
Replace(s, old, new) == ReplaceFrom(s, old, new, 1)

\* The indexes of the character sep in s.
Occurrences(s, sep) == {i \in 1..Len(s) : SubSeq(s, i, i) = sep}

\* str.split(sep) for a one-character sep: piece k lies between the
\* (k-1)th and the kth occurrence of sep.
Split(s, sep) ==
    LET pieces(at) ==
            LET nth(k) == IF k = 0 THEN 0
                          ELSE IF k > Cardinality(at) THEN Len(s) + 1
                          ELSE The({p \in at : Cardinality({q \in at : q <= p}) = k})
            IN  [k \in 1..(Cardinality(at) + 1) |-> SubSeq(s, nth(k - 1) + 1, nth(k) - 1)]
    IN  The({pieces(at) : at \in {Occurrences(s, sep)}})

-----------------------------------------------------------------------------
(* The zone list and the friendly names.                                   *)

COMMON_TZS ==
    <<"America/Los_Angeles", "America/Denver", "America/Chicago",
      "America/New_York", "America/Phoenix", "America/Anchorage",
      "America/Adak", "Pacific/Honolulu", "America/Tijuana",
      "America/Mexico_City", "America/Bogota", "America/Lima",
      "America/Caracas", "America/Santiago", "America/Argentina/Buenos_Aires",
      "America/Sao_Paulo", "Europe/London", "Europe/Dublin",
      "Europe/Lisbon", "Europe/Madrid", "Europe/Paris",
      "Europe/Berlin", "Europe/Rome", "Europe/Zurich",
      "Europe/Amsterdam", "Europe/Stockholm", "Europe/Copenhagen",
      "Europe/Warsaw", "Europe/Athens", "Europe/Helsinki",
      "Europe/Bucharest", "Europe/Moscow", "Africa/Casablanca",
      "Africa/Accra", "Africa/Lagos", "Africa/Johannesburg",
      "Africa/Nairobi", "Asia/Jerusalem", "Asia/Dubai",
      "Asia/Tehran", "Asia/Karachi", "Asia/Kolkata",
      "Asia/Dhaka", "Asia/Bangkok", "Asia/Singapore",
      "Asia/Hong_Kong", "Asia/Shanghai", "Asia/Tokyo",
      "Asia/Seoul", "Australia/Perth", "Australia/Adelaide",
      "Australia/Sydney", "Pacific/Auckland">>

Zones == {COMMON_TZS[i] : i \in 1..Len(COMMON_TZS)}

friendly_label_from_tz(tzname) ==
    IF tzname = "" THEN "UTC"
    ELSE LET last(parts) == Replace(parts[Len(parts)], "_", " ")
         IN  The({last(parts) : parts \in {Split(tzname, "/")}})

\* The (tz, city, region) entry build_friendly_lists makes of one identifier.
FriendlyEntry(tz) ==
    LET entry(parts) ==
            [tz     |-> tz,
             city   |-> Replace(parts[Len(parts)], "_", " "),
             region |-> IF Len(parts) > 1
                        THEN Replace(parts[Len(parts) - 1], "_", " ")
                        ELSE ""]
    IN  The({entry(parts) : parts \in {Split(tz, "/")}})

\* The three values build_friendly_lists returns, as one record.  A dict
\* keeps the last value stored under a key.
build_friendly_lists(tzs) ==
    LET n == Len(tzs)
        lists(entries) ==
            LET counts(city) == Cardinality({i \in 1..n : entries[i].city = city})
                label(i) == IF counts(entries[i].city) > 1 /\ entries[i].region # ""
                            THEN entries[i].city \o " (" \o entries[i].region \o ")"
                            ELSE entries[i].city
                dicts(labels) ==
                    LET lastTz(l) == The({i \in 1..n : /\ labels[i] = l
                                                      /\ \A j \in (i + 1)..n : labels[j] # l})
                        lastLabel(t) == The({i \in 1..n : /\ tzs[i] = t
                                                         /\ \A j \in (i + 1)..n : tzs[j] # t})
                    IN  [tz_to_friendly  |-> [t \in {tzs[i] : i \in 1..n} |-> labels[lastLabel(t)]],
                         friendly_to_tz  |-> [l \in {labels[i] : i \in 1..n} |-> tzs[lastTz(l)]],
                         friendly_values |-> labels]
            IN  The({dicts(labels) : labels \in {[i \in 1..n |-> label(i)]}})
    IN  The({lists(entries) : entries \in {[i \in 1..n |-> FriendlyEntry(tzs[i])]}})

TZ_TO_FRIENDLY == build_friendly_lists(COMMON_TZS).tz_to_friendly
FRIENDLY_TO_TZ == build_friendly_lists(COMMON_TZS).friendly_to_tz
FRIENDLY_VALUES == build_friendly_lists(COMMON_TZS).friendly_values

\* The module is imported: build_friendly_lists(COMMON_TZS) has been called.
Imported ==
    friendly_lists = [tzs |-> COMMON_TZS, called |-> TRUE,
                      ret |-> [tz_to_friendly  |-> TZ_TO_FRIENDLY,
                               friendly_to_tz  |-> FRIENDLY_TO_TZ,
                               friendly_values |-> FRIENDLY_VALUES]]

\* dict.get(key): the value, or None.
DictGet(d, key) == IF key \in DOMAIN d THEN d[key] ELSE None

-----------------------------------------------------------------------------
(* The host: time-zone database and clock.                                 *)

\* The database's offsets of COMMON_TZS, in seconds and in the tuple's order,
\* in the second before daylight saving time begins in Los Angeles
\* (2026-03-08 09:59:59 UTC).
StandardOffsets ==
    <<-28800, -21600, -18000, -14400, -25200, -32400, -36000, -36000,
      -28800, -21600, -18000, -18000, -14400, -10800, -10800, -10800,
      0, 0, 0, 3600, 3600, 3600, 3600, 3600,
      3600, 3600, 3600, 3600, 7200, 7200, 7200, 10800,
      0, 0, 3600, 7200, 10800, 7200, 14400, 12600,
      18000, 19800, 21600, 25200, 28800, 28800, 28800, 32400,
      32400, 28800, 37800, 39600, 46800>>

\* The zones that change offset with Los Angeles, at 10:00:00 UTC.
PacificZones == {"America/Los_Angeles", "America/Tijuana"}

WinterTable ==
    [z \in Zones |-> StandardOffsets[CHOOSE i \in 1..Len(COMMON_TZS) : COMMON_TZS[i] = z]]

MarchTable == [z \in Zones |-> IF z \in PacificZones THEN -25200 ELSE WinterTable[z]]

\* The database's offsets until Los Angeles begins daylight saving time
\* ("winter") and from then on ("march").
TzTable(season) == IF season = "winter" THEN WinterTable ELSE MarchTable

Seasons == {"winter", "march"}

\* Every call of datetime.now reads the host clock anew.  An operator that
\* makes the call takes what its read finds: the second of the UTC day (now)
\* and the offsets in force at that instant (at); utc_now and utcoffset are
\* those of the state.  The offsets a read later than one of at, or earlier,
\* can see:
Later(at) == IF at = WinterTable THEN {WinterTable, MarchTable} ELSE {at}

Earlier(at) == IF at = MarchTable THEN {WinterTable, MarchTable} ELSE {at}

\* The second of the UTC day that a read lag seconds before one of now finds.
SecondsBefore(now, lag) == (now + 86400 - lag) % 86400

\* datetime.now(tz) as the second of the local day; tz = "utc" is timezone.utc.
LocalSecond(tz, now, at) ==
    IF tz = "utc" THEN now % 86400 ELSE (now + at[tz]) % 86400

\* The fields of a datetime the program reads.
DatetimeNow(tz, now, at) ==
    LET t == LocalSecond(tz, now, at)
    IN  [hour |-> t \div 3600, minute |-> (t % 3600) \div 60, second |-> t % 60]

\* ZoneInfo(name) raises for an identifier the database does not have.
ZoneInfoRaises(name) == tzdata[name] = "missing"

\* datetime.now(tz) or utcoffset() raises for a zone whose data is broken.
LookupRaises(tz) == tzdata[tz] = "broken"

-----------------------------------------------------------------------------
(* Logging.  A handler's messages are the sequence of <<level, identifier>> *)
(* pairs it hands to Logger, in order.                                     *)

Warning(name) == <<"warning", name>>

Exception(name) == <<"exception", name>>

Inc(n) == IF n < MaxLogged THEN n + 1 ELSE n

RECURSIVE LoggedFrom(_, _, _)
\* The log lg after the messages msgs[i], msgs[i+1], ... are added to it.
LoggedFrom(lg, msgs, i) ==
    IF i > Len(msgs) THEN lg
    ELSE LoggedFrom([lg EXCEPT ![msgs[i][1]] = [@ EXCEPT ![msgs[i][2]] = Inc(@)]],
                    msgs, i + 1)

\* The log after the messages msgs are added to the log lg.
Logged(lg, msgs) == LoggedFrom(lg, msgs, 1)

-----------------------------------------------------------------------------
(* Zone resolution.  Each operator returns what the function returns       *)
(* (ret), the messages it logs (msgs) and whether it raises (exc).         *)

_resolve_tz(name) ==
    IF ZoneInfo
    THEN IF ZoneInfoRaises(name)
         THEN [ret |-> None, msgs |-> <<Warning(name)>>, exc |-> FALSE]
         ELSE [ret |-> name, msgs |-> <<>>, exc |-> FALSE]
    ELSE [ret |-> None, msgs |-> <<>>, exc |-> FALSE]

\* _offset_seconds_for_tz without its try: a failing lookup reaches the caller.
_offset_seconds_for_tz_unguarded(tzname, at) ==
    LET r == _resolve_tz(tzname)
    IN  IF r.ret = None
        THEN [ret |-> 0, msgs |-> r.msgs, exc |-> FALSE]
        ELSE IF LookupRaises(r.ret)
        THEN [ret |-> 0, msgs |-> r.msgs, exc |-> TRUE]
        ELSE [ret |-> at[r.ret], msgs |-> r.msgs, exc |-> FALSE]

_offset_seconds_for_tz(tzname, at) ==
    LET r == _resolve_tz(tzname)
    IN  IF r.ret = None
        THEN [ret |-> 0, msgs |-> r.msgs, exc |-> FALSE]
        ELSE IF LookupRaises(r.ret)
        THEN [ret |-> 0, msgs |-> r.msgs \o <<Exception(tzname)>>, exc |-> FALSE]
        ELSE [ret |-> at[r.ret], msgs |-> r.msgs, exc |-> FALSE]

-----------------------------------------------------------------------------
(* AnalogClock.  Each method takes the widget (self) and returns the       *)
(* widget after the call (self), the messages it logs and whether it       *)
(* raises.                                                                 *)

on_tzname(self) ==
    LET r == _resolve_tz(self.tzname)
    IN  [self |-> [self EXCEPT !._tz = r.ret, !._warned_tz = FALSE],
         msgs |-> r.msgs,
         exc  |-> r.exc]

\* on_parent that leaves the timer scheduled.
on_parent_keeps_timer(self) == self

on_parent(self) ==
    IF self.parent = None /\ self._evt # None
    THEN [self EXCEPT !._evt = None]
    ELSE self

\* The inset of the face from the widget's edge, dp(6), in pixels at density 1.
inset == 6

\* The diameter of the face: d of _update_geometry and _update_hands.
Diameter(self) == IF self.side - 2 * inset > 0 THEN self.side - 2 * inset ELSE 0

\* The hands' endpoints are computed from the stored hour, minute and second
\* (drawn records which), unless the face has no room.
_update_hands(self) ==
    IF Diameter(self) <= 0
    THEN self
    ELSE [self EXCEPT !.drawn = <<self.hour, self.minute, self.second>>]

\* A bound property is assigned: its observer runs if the value changes.
SetProperty(self, name, value) ==
    IF self[name] = value
    THEN self
    ELSE The({_update_hands(set) : set \in {[self EXCEPT ![name] = value]}})

\* self.second = ...; self.minute = ...; self.hour = ..., in this order.
Assigned(self, second, minute, hour) ==
    LET assign(a) ==
            The({The({SetProperty(s2, "hour", a[4])
                      : s2 \in {SetProperty(s1, "minute", a[3])}})
                 : s1 \in {SetProperty(a[1], "second", a[2])}})
    IN  The({assign(a) : a \in {<<self, second, minute, hour>>}})

\* StoreTime with the hour of the 24-hour day.
StoreTimeHour24(self, now) ==
    LET second == now.second
        minute == now.minute * 60 + second
        hour   == now.hour * 3600 + minute
    IN  Assigned(self, second, minute, hour)

\* StoreTime with the minute hand stepped, without the fraction of seconds.
StoreTimeWholeMinute(self, now) ==
    LET second == now.second
        minute == now.minute * 60
        hour   == (now.hour % 12) * 3600 + minute
    IN  Assigned(self, second, minute, hour)

\* StoreTime with _update_hands bound to second only: the hands are drawn
\* when second is assigned, before minute and hour are.
StoreTimeDrawnOnSecond(self, now) ==
    LET second == now.second
        minute == now.minute * 60 + second
        hour   == (now.hour % 12) * 3600 + minute
        assign(a) ==
            The({[s1 EXCEPT !.minute = a[3], !.hour = a[4]]
                 : s1 \in {SetProperty(a[1], "second", a[2])}})
    IN  The({assign(a) : a \in {<<self, second, minute, hour>>}})

\* The three assignments that end _update_time, from the datetime now, each
\* with the call of _update_hands its binding makes.  minute and hour are
\* the names of the doubles assigned: see MinuteOf and HourOf.
StoreTime(self, now) ==
    LET second == now.second
        minute == now.minute * 60 + second
        hour   == (now.hour % 12) * 3600 + minute
    IN  Assigned(self, second, minute, hour)

-----------------------------------------------------------------------------
(* The doubles of _update_time.  hour, minute and second are floats: the   *)
(* two divisions by 60.0 and the two additions are rounded to the nearest  *)
(* double, ties to even.  A double x with 0 <= x < 64 is the record of     *)
(* int = floor(x) and frac = the bits of x - floor(x) after the binary     *)
(* point, without trailing zeros.  The fields minute and hour of a clock   *)
(* name the doubles stored: minute = 60 * m + s names the double of        *)
(* m + s / 60.0, and hour = 3600 * h + 60 * m + s the double of            *)
(* h + (m + s / 60.0) / 60.0.                                              *)

\* The bits of the significand of a double.
Mantissa == 53

\* The quotient bits computed before rounding: enough for the leading zeros
\* of the smallest quotient, the significand and the bit after it.
QuotientBits == Mantissa + 17

RECURSIVE BitLength(_)
\* The number of bits of a natural number.
BitLength(n) == IF n = 0 THEN 0 ELSE 1 + BitLength(n \div 2)

\* Bits without their trailing zeros.
Trimmed(bits) ==
    IF \E i \in 1..Len(bits) : bits[i] = 1
    THEN SubSeq(bits, 1, CHOOSE i \in 1..Len(bits) :
                             bits[i] = 1 /\ \A j \in (i + 1)..Len(bits) : bits[j] = 0)
    ELSE <<>>

BitAt(bits, i) == IF i >= 1 /\ i <= Len(bits) THEN bits[i] ELSE 0

\* bits plus one unit of their last place, and the carry out of the first.
Incremented(bits) ==
    IF \E i \in 1..Len(bits) : bits[i] = 0
    THEN LET z == CHOOSE i \in 1..Len(bits) :
                      bits[i] = 0 /\ \A j \in (i + 1)..Len(bits) : bits[j] = 1
         IN  [carry |-> 0,
              bits  |-> [i \in 1..Len(bits) |->
                            IF i < z THEN bits[i] ELSE IF i = z THEN 1 ELSE 0]]
    ELSE [carry |-> 1, bits |-> [i \in 1..Len(bits) |-> 0]]

\* The double nearest to int + 0.bits (+ something below the last bit, if
\* sticky), ties to even.
Rounded(int, bits, sticky) ==
    LET lead == IF \E i \in 1..Len(bits) : bits[i] = 1
                THEN CHOOSE i \in 1..Len(bits) :
                         bits[i] = 1 /\ \A j \in 1..(i - 1) : bits[j] = 0
                ELSE 0
        round(keep) ==
            LET kept  == [i \in 1..keep |-> BitAt(bits, i)]
                guard == BitAt(bits, keep + 1)
                rest  == sticky \/ \E i \in (keep + 2)..Len(bits) : bits[i] = 1
                lsb   == IF keep = 0 THEN int % 2 ELSE kept[keep]
            IN  IF guard = 1 /\ (rest \/ lsb = 1)
                THEN The({[int |-> int + up.carry, frac |-> Trimmed(up.bits)]
                          : up \in {Incremented(kept)}})
                ELSE [int |-> int, frac |-> Trimmed(kept)]
    IN  IF int = 0 /\ lead = 0
        THEN [int |-> 0, frac |-> <<>>]
        ELSE IF int > 0
        THEN round(Mantissa - BitLength(int))
        ELSE round(lead + Mantissa - 1)

RECURSIVE DividedBy60(_, _, _, _)
\* Long division by 60 of r + 0.bits, r < 60: the quotient's bits at the
\* positions from..to, and the remainder left after them.
DividedBy60(r, bits, from, to) ==
    IF from = to
    THEN LET n == 2 * r + BitAt(bits, from)
         IN  IF n >= 60 THEN [q |-> <<1>>, r |-> n - 60] ELSE [q |-> <<0>>, r |-> n]
    ELSE LET mid == (from + to) \div 2
         IN  The({The({[q |-> head.q \o tail.q, r |-> tail.r]
                       : tail \in {DividedBy60(head.r, bits, mid + 1, to)}})
                  : head \in {DividedBy60(r, bits, from, mid)}})

\* float(n).
FloatOf(n) == [int |-> n, frac |-> <<>>]

\* x / 60.0, for a double x < 60.
FloatDiv60(x) ==
    The({Rounded(0, d.q, d.r # 0) : d \in {DividedBy60(x.int, x.frac, 1, QuotientBits)}})

\* n + x, for an int n and a double x.
FloatAdd(n, x) == Rounded(n + x.int, x.frac, FALSE)

\* x - floor(x): exact in doubles.
Fraction(x) == [int |-> 0, frac |-> x.frac]

\* The doubles that StoreTime assigns for the datetime now.
SecondOf(now) == FloatOf(now.second)

MinuteOf(now) == FloatAdd(now.minute, FloatDiv60(SecondOf(now)))

HourOf(now) == FloatAdd(now.hour % 12, FloatDiv60(MinuteOf(now)))

\* The doubles a clock has stored.
StoredSecond(self) == FloatOf(self.second)

StoredMinute(self) ==
    MinuteOf([hour |-> 0, minute |-> self.minute \div 60, second |-> self.minute % 60])

StoredHour(self) ==
    HourOf([hour |-> self.hour \div 3600, minute |-> (self.hour % 3600) \div 60,
            second |-> self.hour % 60])

-----------------------------------------------------------------------------

_update_time(self, now, at) ==
    IF self._tz # None
    THEN IF LookupRaises(self._tz)
         THEN [self |-> StoreTime(self, DatetimeNow("utc", now, at)),
               msgs |-> <<Exception(self.tzname)>>,
               exc  |-> FALSE]
         ELSE [self |-> StoreTime(self, DatetimeNow(self._tz, now, at)),
               msgs |-> <<>>,
               exc  |-> FALSE]
    ELSE [self |-> StoreTime([self EXCEPT !._warned_tz = TRUE], DatetimeNow("utc", now, at)),
          msgs |-> IF ~self._warned_tz THEN <<Warning(self.tzname)>> ELSE <<>>,
          exc  |-> FALSE]

\* _update_geometry ends with _update_hands; the rest of it places the face,
\* the ticks and the numerals.
_update_geometry(self) == _update_hands(self)

\* The layout gives the widget a size: the size binding runs _update_geometry.
Resized(self, side) ==
    IF side = self.side THEN self ELSE _update_geometry([self EXCEPT !.side = side])

\* The class-level defaults of the properties, before __init__ runs; side is
\* the smaller of width and height (a Widget is 100 by 100 until it is laid
\* out), and drawn what the hands' points were computed from (none yet).
AnalogClockDefaults ==
    [tzname |-> "UTC", label |-> "Zone", hour |-> 0, minute |-> 0, second |-> 0,
     _warned_tz |-> FALSE, _tz |-> None, _evt |-> None, parent |-> None,
     side |-> 100, drawn |-> <<>>]

\* kwargs.get(key), with the value of a key that is not given.
KwargsGet(kwargs, key, default) ==
    IF key \in DOMAIN kwargs THEN kwargs[key] ELSE default

\* The smaller of width and height after super().__init__(**kwargs): dp(260)
\* at density 1 when neither a size nor a size_hint is given, the smaller of
\* the size that is given, and the default otherwise.
InitialSide(kwargs) ==
    IF "size" \notin DOMAIN kwargs /\ KwargsGet(kwargs, "size_hint", None) = None
    THEN 260
    ELSE IF "size" \in DOMAIN kwargs
    THEN IF kwargs.size[1] < kwargs.size[2] THEN kwargs.size[1] ELSE kwargs.size[2]
    ELSE AnalogClockDefaults.side

\* AnalogClock(**kwargs): super().__init__ applies the keyword arguments, and
\* on_tzname runs if tzname is given a value other than the default; then the
\* body of __init__, which reads the host clock once, in _update_time(0).
AnalogClock__init__(kwargs, now, at) ==
    LET given   == [AnalogClockDefaults EXCEPT
                       !.tzname = KwargsGet(kwargs, "tzname", @),
                       !.label  = KwargsGet(kwargs, "label", @),
                       !.side   = InitialSide(kwargs)]
        applied == IF given.tzname # AnalogClockDefaults.tzname
                   THEN on_tzname(given)
                   ELSE [self |-> given, msgs |-> <<>>, exc |-> FALSE]
        r       == _resolve_tz(given.tzname)
        started == [applied.self EXCEPT !._tz = r.ret, !._evt = "scheduled"]
        result(shown) ==
            [self |-> shown.self,
             msgs |-> applied.msgs \o r.msgs \o shown.msgs,
             exc  |-> applied.exc \/ r.exc \/ shown.exc]
    IN  The({The({result(shown) : shown \in {_update_time(placed, now, at)}})
             : placed \in {_update_geometry(started)}})

\* add_widget(clock): the parent is set and on_parent runs.
AddWidget(self, parent) == on_parent([self EXCEPT !.parent = parent])

\* remove_widget(clock): the parent becomes None and on_parent runs.
RemoveWidget(self) == on_parent([self EXCEPT !.parent = None])

-----------------------------------------------------------------------------
(* DualClocksApp.                                                          *)

Abs(n) == IF n < 0 THEN -n ELSE n

\* _format_signed_diff_text with the minutes taken of all the seconds.
_format_signed_diff_text_all_minutes(seconds_b_minus_a) ==
    LET sign    == IF seconds_b_minus_a > 0 THEN "+"
                   ELSE IF seconds_b_minus_a < 0 THEN "-" ELSE ""
        secs    == Abs(seconds_b_minus_a)
        hours   == secs \div 3600
        minutes == secs \div 60
    IN  IF minutes = 0
        THEN sign \o ToString(hours) \o " Hours"
        ELSE sign \o ToString(hours) \o " Hours " \o ToString(minutes) \o " Minutes"

\* _format_signed_diff_text with the sign taken after abs().
_format_signed_diff_text_sign_after_abs(seconds_b_minus_a) ==
    LET secs    == Abs(seconds_b_minus_a)
        sign    == IF secs > 0 THEN "+" ELSE IF secs < 0 THEN "-" ELSE ""
        hours   == secs \div 3600
        minutes == (secs % 3600) \div 60
    IN  IF minutes = 0
        THEN sign \o ToString(hours) \o " Hours"
        ELSE sign \o ToString(hours) \o " Hours " \o ToString(minutes) \o " Minutes"

_format_signed_diff_text(seconds_b_minus_a) ==
    LET sign    == IF seconds_b_minus_a > 0 THEN "+"
                   ELSE IF seconds_b_minus_a < 0 THEN "-" ELSE ""
        secs    == Abs(seconds_b_minus_a)
        hours   == secs \div 3600
        minutes == (secs % 3600) \div 60
    IN  IF minutes = 0
        THEN sign \o ToString(hours) \o " Hours"
        ELSE sign \o ToString(hours) \o " Hours " \o ToString(minutes) \o " Minutes"

\* The difference as a magnitude: the larger offset minus the smaller.
DeltaMagnitude(off_left, off_right) == Abs(off_right - off_left)

\* Right minus left.
Delta(off_left, off_right) == off_right - off_left

\* The label and the arrow after the colour branch of _update_diff_label.
Indicator(lbl, arrow, delta) ==
    IF delta > 0
    THEN [label |-> [lbl EXCEPT !.color = "BRIGHT_GREEN"],
          arrow |-> [arrow EXCEPT !.color = "BRIGHT_GREEN", !.direction = "right",
                                  !.opacity = 1]]
    ELSE IF delta < 0
    THEN [label |-> [lbl EXCEPT !.color = "BRIGHT_RED"],
          arrow |-> [arrow EXCEPT !.color = "BRIGHT_RED", !.direction = "right",
                                  !.opacity = 1]]
    ELSE [label |-> [lbl EXCEPT !.color = "DARK_TEXT"],
          arrow |-> [arrow EXCEPT !.opacity = 0]]

\* The host clock is read twice, once for each zone: at_left and at_right are
\* the offsets in force at the first and at the second read.
_update_diff_label(lbl, arrow, left_tzname, right_tzname, at_left, at_right) ==
    LET off_left  == _offset_seconds_for_tz(left_tzname, at_left)
        off_right == _offset_seconds_for_tz(right_tzname, at_right)
        delta     == Delta(off_left.ret, off_right.ret)
        text      == _format_signed_diff_text(delta)
        ind       == Indicator([lbl EXCEPT !.text = text], arrow, delta)
    IN  [label |-> ind.label, arrow |-> ind.arrow,
         msgs  |-> off_left.msgs \o off_right.msgs,
         exc   |-> off_left.exc \/ off_right.exc]

\* The body shared by _on_left_city_change and _on_right_city_change up to
\* the call of _update_diff_label: found is FALSE for an unknown label.
CityChange(self, friendly_label) ==
    LET tz == DictGet(FRIENDLY_TO_TZ, friendly_label)
    IN  IF tz = None
        THEN [found |-> FALSE, self |-> self, msgs |-> <<>>, exc |-> FALSE]
        ELSE LET set == [self EXCEPT !.tzname = tz]
                 obs == IF tz # self.tzname THEN on_tzname(set)
                        ELSE [self |-> set, msgs |-> <<>>, exc |-> FALSE]
             IN  [found |-> TRUE,
                  self  |-> [obs.self EXCEPT !.label = friendly_label],
                  msgs  |-> obs.msgs,
                  exc   |-> obs.exc]

-----------------------------------------------------------------------------
(* The state after DualClocksApp.build, in a given environment.            *)

NoMessages == [warning |-> [z \in Zones |-> 0], exception |-> [z \in Zones |-> 0]]

\* What the host can be: no zoneinfo module; or the module with a complete
\* tzdata, with none, or with one in which the data of a zone cannot be read.
Hosts ==
    {[ZoneInfo |-> FALSE, tzdata |-> [z \in Zones |-> "missing"]],
     [ZoneInfo |-> TRUE,  tzdata |-> [z \in Zones |-> "ok"]],
     [ZoneInfo |-> TRUE,  tzdata |-> [z \in Zones |-> "missing"]],
     [ZoneInfo |-> TRUE,  tzdata |-> [z \in Zones |->
                                        IF z = "America/Los_Angeles" THEN "broken" ELSE "ok"]]}

\* build(): the two clocks are constructed and added to their anchors, the
\* spinners show the friendly names, and _update_diff_label(0) runs once.  The
\* host clock is read four times, in this order: by each clock's
\* _update_time(0) and twice by _update_diff_label; the state build leaves has
\* the second and the offsets of the last read, and each read before it finds
\* the same second or an earlier one (the left clock's the earliest, at most
\* seconds before the last), and the same offsets or earlier ones.
BuiltWithin(seconds) ==
    \E at_right \in {utcoffset} :
    \E at_left \in Earlier(at_right) :
    \E at_right_clock \in Earlier(at_left) :
    \E at_left_clock \in Earlier(at_right_clock) :
    \E lag_left_clock \in 0..seconds :
    \E lag_right_clock \in 0..lag_left_clock :
    \E l \in {AnalogClock__init__([tzname |-> "America/Los_Angeles",
                                   label |-> "San Francisco",
                                   size_hint |-> "(1, 1)"],
                                  SecondsBefore(utc_now, lag_left_clock), at_left_clock)},
       r \in {AnalogClock__init__([tzname |-> "Europe/London",
                                   label |-> "London",
                                   size_hint |-> "(1, 1)"],
                                  SecondsBefore(utc_now, lag_right_clock), at_right_clock)} :
    \E lc \in {AddWidget(l.self, "left_anchor")},
       rc \in {AddWidget(r.self, "right_anchor")} :
    \E d \in {_update_diff_label([text |-> "", color |-> "BRIGHT_GREEN"],
                                 [color |-> "BRIGHT_GREEN", direction |-> "right",
                                  opacity |-> 1],
                                 lc.tzname, rc.tzname, at_left, at_right)} :
        /\ left_clock = lc
        /\ right_clock = rc
        /\ left_spinner = IF lc.tzname \in DOMAIN TZ_TO_FRIENDLY
                          THEN TZ_TO_FRIENDLY[lc.tzname]
                          ELSE friendly_label_from_tz(lc.tzname)
        /\ right_spinner = IF rc.tzname \in DOMAIN TZ_TO_FRIENDLY
                           THEN TZ_TO_FRIENDLY[rc.tzname]
                           ELSE friendly_label_from_tz(rc.tzname)
        /\ center_diff_label = d.label
        /\ center_arrow = d.arrow
        /\ Logger = Logged(NoMessages, l.msgs \o r.msgs \o d.msgs)
        /\ raised = (l.exc \/ r.exc \/ d.exc)

\* The state after build.
Built == BuiltWithin(MaxBuildSeconds)

Init ==
    /\ \E host \in Hosts : ZoneInfo = host.ZoneInfo /\ tzdata = host.tzdata
    /\ \E season \in Seasons : utcoffset = TzTable(season)
    /\ utc_now = StartInstant
    /\ Imported
    /\ Built
    /\ picked = 0

-----------------------------------------------------------------------------
(* The handlers.                                                           *)

env == <<ZoneInfo, tzdata, utcoffset, utc_now, friendly_lists>>

\* What no handler changes: the host but for the offsets in force.
rest == <<ZoneInfo, tzdata, utc_now, friendly_lists>>

\* The user picks friendly_label in the left Spinner: its text changes.
_on_left_city_change(friendly_label) ==
    /\ picked < MaxPicked
    /\ picked' = picked + 1
    /\ friendly_label # left_spinner
    /\ left_spinner' = friendly_label
    /\ \E c \in {CityChange(left_clock, friendly_label)} :
           IF ~c.found
           THEN UNCHANGED <<left_clock, center_diff_label, center_arrow, Logger, raised,
                            utcoffset>>
           ELSE \E later \in Later(utcoffset) :
                \E d \in {_update_diff_label(center_diff_label, center_arrow,
                                             c.self.tzname, right_clock.tzname,
                                             utcoffset, later)} :
                    /\ left_clock' = c.self
                    /\ center_diff_label' = d.label
                    /\ center_arrow' = d.arrow
                    /\ Logger' = Logged(Logger, c.msgs \o d.msgs)
                    /\ raised' = (raised \/ c.exc \/ d.exc)
                    /\ utcoffset' = later
    /\ UNCHANGED <<rest, right_clock, right_spinner>>

\* The user picks friendly_label in the right Spinner: its text changes.
_on_right_city_change(friendly_label) ==
    /\ picked < MaxPicked
    /\ picked' = picked + 1
    /\ friendly_label # right_spinner
    /\ right_spinner' = friendly_label
    /\ \E c \in {CityChange(right_clock, friendly_label)} :
           IF ~c.found
           THEN UNCHANGED <<right_clock, center_diff_label, center_arrow, Logger, raised,
                            utcoffset>>
           ELSE \E later \in Later(utcoffset) :
                \E d \in {_update_diff_label(center_diff_label, center_arrow,
                                             left_clock.tzname, c.self.tzname,
                                             utcoffset, later)} :
                    /\ right_clock' = c.self
                    /\ center_diff_label' = d.label
                    /\ center_arrow' = d.arrow
                    /\ Logger' = Logged(Logger, c.msgs \o d.msgs)
                    /\ raised' = (raised \/ c.exc \/ d.exc)
                    /\ utcoffset' = later
    /\ UNCHANGED <<rest, left_clock, left_spinner>>

\* _update_diff_label(dt) with its second read of the host clock seeing the
\* offsets later.
DiffTickAt(later) ==
    /\ \E d \in {_update_diff_label(center_diff_label, center_arrow,
                                    left_clock.tzname, right_clock.tzname,
                                    utcoffset, later)} :
           /\ center_diff_label' = d.label
           /\ center_arrow' = d.arrow
           /\ Logger' = Logged(Logger, d.msgs)
           /\ raised' = (raised \/ d.exc)
    /\ utcoffset' = later
    /\ UNCHANGED <<rest, left_clock, right_clock, left_spinner, right_spinner, picked>>

\* The application's one-second timer fires: _update_diff_label(dt).
DiffTick == \E later \in Later(utcoffset) : DiffTickAt(later)

\* The left clock's one-second timer fires: _update_time(dt).
LeftClockTick ==
    /\ left_clock._evt # None
    /\ \E u \in {_update_time(left_clock, utc_now, utcoffset)} :
           /\ left_clock' = u.self
           /\ Logger' = Logged(Logger, u.msgs)
           /\ raised' = (raised \/ u.exc)
    /\ UNCHANGED <<env, right_clock, center_diff_label, center_arrow,
                   left_spinner, right_spinner, picked>>

\* The right clock's one-second timer fires: _update_time(dt).
RightClockTick ==
    /\ right_clock._evt # None
    /\ \E u \in {_update_time(right_clock, utc_now, utcoffset)} :
           /\ right_clock' = u.self
           /\ Logger' = Logged(Logger, u.msgs)
           /\ raised' = (raised \/ u.exc)
    /\ UNCHANGED <<env, left_clock, center_diff_label, center_arrow,
                   left_spinner, right_spinner, picked>>

\* The left clock is taken out of the widget tree: on_parent runs.
LeftRemoved ==
    /\ left_clock.parent # None
    /\ left_clock' = RemoveWidget(left_clock)
    /\ UNCHANGED <<env, right_clock, center_diff_label, center_arrow,
                   left_spinner, right_spinner, picked, Logger, raised>>

\* The right clock is taken out of the widget tree: on_parent runs.
RightRemoved ==
    /\ right_clock.parent # None
    /\ right_clock' = RemoveWidget(right_clock)
    /\ UNCHANGED <<env, left_clock, center_diff_label, center_arrow,
                   left_spinner, right_spinner, picked, Logger, raised>>

\* A second passes on the host clock.
SecondPasses ==
    /\ (utc_now - StartInstant) % 86400 < MaxTicks
    /\ utc_now' = (utc_now + 1) % 86400
    /\ UNCHANGED <<ZoneInfo, tzdata, utcoffset, left_clock, right_clock,
                   center_diff_label, center_arrow, left_spinner, right_spinner,
                   picked, Logger, raised, friendly_lists>>

\* Daylight saving time begins in Los Angeles: the offsets change.
DstTransition ==
    /\ utcoffset = TzTable("winter")
    /\ utcoffset' = TzTable("march")
    /\ UNCHANGED <<ZoneInfo, tzdata, utc_now, left_clock, right_clock,
                   center_diff_label, center_arrow, left_spinner, right_spinner,
                   picked, Logger, raised, friendly_lists>>

\* The values a Spinner offers: values=FRIENDLY_VALUES.
SpinnerValues == {FRIENDLY_VALUES[i] : i \in 1..Len(FRIENDLY_VALUES)}

Next ==
    \/ \E friendly_label \in SpinnerValues : _on_left_city_change(friendly_label)
    \/ \E friendly_label \in SpinnerValues : _on_right_city_change(friendly_label)
    \/ DiffTick
    \/ LeftClockTick
    \/ RightClockTick
    \/ LeftRemoved
    \/ RightRemoved
    \/ SecondPasses
    \/ DstTransition

Spec == Init /\ [][Next]_vars

-----------------------------------------------------------------------------
(* SpecTimers: the application left to its three timers, with no selection *)
(* made: the clocks tick and are removed, the difference label is          *)
(* refreshed, and the host clock and its offsets move on.                  *)

TimersNext ==
    \/ DiffTick
    \/ LeftClockTick
    \/ RightClockTick
    \/ LeftRemoved
    \/ RightRemoved
    \/ SecondPasses
    \/ DstTransition

SpecTimers == Init /\ [][TimersNext]_vars

-----------------------------------------------------------------------------
(* SpecSweep: the two clocks through every second of a day, from a build   *)
(* that ends at 00:00:00 and began in that second or in the one before.    *)
(* Both timers fire in every second, in either order, before the next      *)
(* second begins.                                                          *)

\* A tick now would store what the clock already shows.
UpToDate(self) == _update_time(self, utc_now, utcoffset).self = self

SweepInit ==
    /\ \E host \in Hosts :
          /\ host.tzdata \in {[z \in Zones |-> "ok"], [z \in Zones |-> "missing"]}
          /\ ZoneInfo = host.ZoneInfo /\ tzdata = host.tzdata
    /\ utcoffset = TzTable("winter")
    /\ utc_now = 0
    /\ Imported
    /\ BuiltWithin(1)
    /\ picked = 0

\* The next second of the day begins.
SweepSecond ==
    /\ UpToDate(left_clock) /\ UpToDate(right_clock)
    /\ utc_now' = (utc_now + 1) % 86400
    /\ UNCHANGED <<ZoneInfo, tzdata, utcoffset, left_clock, right_clock,
                   center_diff_label, center_arrow, left_spinner, right_spinner,
                   picked, Logger, raised, friendly_lists>>

SweepNext ==
    \/ SweepSecond
    \/ LeftClockTick
    \/ RightClockTick

SpecSweep == SweepInit /\ [][SweepNext]_vars

-----------------------------------------------------------------------------
(* SpecFormat: the application built, within one second of the host clock, *)
(* on a host whose database gives the right zone any offset of             *)
(* -MaxAbsOffset..MaxAbsOffset, so that the difference label is formatted  *)
(* for every difference in a range of that width.                          *)

FormatInit ==
    /\ ZoneInfo = TRUE
    /\ tzdata = [z \in Zones |-> "ok"]
    /\ \E b \in (-MaxAbsOffset)..MaxAbsOffset :
          utcoffset = [TzTable("winter") EXCEPT !["Europe/London"] = b]
    /\ utc_now = StartInstant
    /\ Imported
    /\ BuiltWithin(0)
    /\ picked = 0

\* The application's timer fires while the host's offsets stand still.
FormatNext == DiffTickAt(utcoffset)

SpecFormat == FormatInit /\ [][FormatNext]_vars

-----------------------------------------------------------------------------
(* SpecHands: the application, built in one second of the host clock or    *)
(* across two, with its two timers and the host clock, while the layout    *)
(* gives the clocks new sizes, down to a face without room for the hands.  *)

\* The smaller of width and height the layout can give a clock, in pixels:
\* twice the inset (no room), a Widget's default, and dp(260).
Sides == {12, 100, 260}

\* The layout resizes the left clock: its size binding runs.
LeftResized(side) ==
    /\ side # left_clock.side
    /\ left_clock' = Resized(left_clock, side)
    /\ UNCHANGED <<env, right_clock, center_diff_label, center_arrow,
                   left_spinner, right_spinner, picked, Logger, raised>>

\* The layout resizes the right clock: its size binding runs.
RightResized(side) ==
    /\ side # right_clock.side
    /\ right_clock' = Resized(right_clock, side)
    /\ UNCHANGED <<env, left_clock, center_diff_label, center_arrow,
                   left_spinner, right_spinner, picked, Logger, raised>>

\* The instants at which the application is started: a second before
\* midnight UTC, a minute after it, and a second before 06:30:00.
HandsStarts == {StartInstant, 60, 23399}

HandsInit ==
    /\ \E host \in Hosts : ZoneInfo = host.ZoneInfo /\ tzdata = host.tzdata
    /\ \E season \in Seasons : utcoffset = TzTable(season)
    /\ utc_now \in HandsStarts
    /\ Imported
    /\ BuiltWithin(1)
    /\ picked = 0

\* A second passes on the host clock, up to MaxTicks after the start.
HandsSecond ==
    /\ \E start \in HandsStarts : (utc_now - start) % 86400 < MaxTicks
    /\ utc_now' = (utc_now + 1) % 86400
    /\ UNCHANGED <<ZoneInfo, tzdata, utcoffset, left_clock, right_clock,
                   center_diff_label, center_arrow, left_spinner, right_spinner,
                   picked, Logger, raised, friendly_lists>>

HandsNext ==
    \/ LeftClockTick
    \/ RightClockTick
    \/ HandsSecond
    \/ \E side \in Sides : LeftResized(side)
    \/ \E side \in Sides : RightResized(side)

SpecHands == HandsInit /\ [][HandsNext]_vars

-----------------------------------------------------------------------------
(* SpecFriendly: build_friendly_lists called, once, with a list of         *)
(* distinct identifiers, before any widget exists.                         *)

\* Identifiers to build lists of: a city of two regions, the city with no
\* region, the city under a sub-region of two regions, and another city.
ZonePool ==
    {"Europe/Paris", "America/Paris", "Paris",
     "America/Texas/Paris", "Europe/Texas/Paris", "Asia/Hong_Kong"}

\* The lists of at most MaxZones distinct identifiers of the pool.
ZoneLists ==
    {l \in UNION {[1..n -> ZonePool] : n \in 0..MaxZones} :
        \A i, j \in 1..Len(l) : l[i] = l[j] => i = j}

FriendlyInit ==
    /\ \E l \in ZoneLists :
          friendly_lists = [tzs |-> l, called |-> FALSE,
                            ret |-> [tz_to_friendly |-> <<>>, friendly_to_tz |-> <<>>,
                                     friendly_values |-> <<>>]]
    /\ ZoneInfo = TRUE
    /\ tzdata = [z \in Zones |-> "ok"]
    /\ utcoffset = TzTable("winter")
    /\ utc_now = StartInstant
    /\ left_clock = None /\ right_clock = None
    /\ center_diff_label = None /\ center_arrow = None
    /\ left_spinner = None /\ right_spinner = None
    /\ picked = 0
    /\ Logger = NoMessages
    /\ raised = FALSE

\* build_friendly_lists(tzs) is called and returns.
CallBuildFriendlyLists ==
    /\ ~friendly_lists.called
    /\ friendly_lists' = [friendly_lists EXCEPT
                             !.called = TRUE,
                             !.ret = build_friendly_lists(friendly_lists.tzs)]
    /\ UNCHANGED <<ZoneInfo, tzdata, utcoffset, utc_now, left_clock, right_clock,
                   center_diff_label, center_arrow, left_spinner, right_spinner,
                   picked, Logger, raised>>

FriendlyNext == CallBuildFriendlyLists

SpecFriendly == FriendlyInit /\ [][FriendlyNext]_vars

-----------------------------------------------------------------------------
(* What the properties are stated with.                                    *)

\* The offset of a zone as the claims mean it: the database's offset of a
\* zone that resolves and can be looked up, and 0 of any other.
ZoneOffsetAt(z, at) == IF ZoneInfo /\ tzdata[z] = "ok" THEN at[z] ELSE 0

\* The offset of a zone at the instant of the state.
ZoneOffset(z) == ZoneOffsetAt(z, utcoffset)

\* offset(right) - offset(left).
SignedSeconds(left, right) == ZoneOffset(right) - ZoneOffset(left)

\* The delta the application computes with left = A and right = B.
DeltaFor(A, B) ==
    Delta(_offset_seconds_for_tz(A, utcoffset).ret, _offset_seconds_for_tz(B, utcoffset).ret)

\* The zones whose pairs are compared in a state: the zones of the two
\* clocks, and all 53 in the state whose offsets are the database's.
ZonesCompared ==
    IF utcoffset = WinterTable
    THEN Zones
    ELSE {left_clock.tzname, right_clock.tzname}

\* The text the application shows with left = A and right = B.  Both
\* reads of the host clock are at the instant of the state.
TextFor(A, B) ==
    _update_diff_label(center_diff_label, center_arrow, A, B, utcoffset, utcoffset).label.text

Digits == "0123456789"

RECURSIVE Decimal(_)
\* The decimal numeral of a natural number.
Decimal(n) ==
    IF n < 10 THEN SubSeq(Digits, n + 1, n + 1)
    ELSE Decimal(n \div 10) \o SubSeq(Digits, (n % 10) + 1, (n % 10) + 1)

\* The text the specification prescribes for a difference in seconds.
PrescribedText(signedSeconds) ==
    LET text(hours, minutes, sign) ==
            IF minutes = 0
            THEN sign \o Decimal(hours) \o " Hours"
            ELSE sign \o Decimal(hours) \o " Hours " \o Decimal(minutes) \o " Minutes"
    IN  The({text(Abs(n) \div 3600, (Abs(n) % 3600) \div 60,
                  IF n > 0 THEN "+" ELSE IF n < 0 THEN "-" ELSE "")
             : n \in {signedSeconds}})

IsNumeral(str) ==
    /\ Len(str) > 0
    /\ \A i \in 1..Len(str) : \E d \in 0..9 : SubSeq(Digits, d + 1, d + 1) = SubSeq(str, i, i)

RECURSIVE NumeralValue(_, _)
\* The number the first n characters of a numeral denote.
NumeralValue(str, n) ==
    IF n = 0 THEN 0
    ELSE 10 * NumeralValue(str, n - 1)
         + The({d \in 0..9 : SubSeq(Digits, d + 1, d + 1) = SubSeq(str, n, n)})

\* The sign character a text begins with, or "".
SignOf(text) ==
    IF Len(text) > 0 /\ SubSeq(text, 1, 1) \in {"+", "-"} THEN SubSeq(text, 1, 1) ELSE ""

\* A text without its sign character.
Unsigned(text) == SubSeq(text, Len(SignOf(text)) + 1, Len(text))

\* The sign, hours and minutes read back from a difference text: ok is
\* FALSE for a text that is not "<sign><hours> Hours[ <minutes> Minutes]".
ParseDiffText(text) ==
    LET bad == [ok |-> FALSE, sign |-> 0, hours |-> 0, minutes |-> 0]
        sign == IF SignOf(text) = "+" THEN 1 ELSE IF SignOf(text) = "-" THEN -1 ELSE 0
        parse(body, words) ==
            IF Len(words) = 2 /\ IsNumeral(words[1]) /\ words[2] = "Hours"
            THEN [ok |-> TRUE, sign |-> sign,
                  hours |-> NumeralValue(words[1], Len(words[1])), minutes |-> 0]
            ELSE IF /\ Len(words) = 4 /\ IsNumeral(words[1]) /\ words[2] = "Hours"
                    /\ IsNumeral(words[3]) /\ words[4] = "Minutes"
            THEN [ok |-> TRUE, sign |-> sign,
                  hours |-> NumeralValue(words[1], Len(words[1])),
                  minutes |-> NumeralValue(words[3], Len(words[3]))]
            ELSE bad
    IN  The({The({parse(body, words) : words \in {Split(body, " ")}})
             : body \in {Unsigned(text)}})

\* sign * (hours * 3600 + minutes * 60) of a parsed text.
Recombined(p) == p.sign * (p.hours * 3600 + p.minutes * 60)

-----------------------------------------------------------------------------
(* C2.  For every difference in seconds, the text is the sign ("+" if      *)
(* positive, "-" if negative, none if zero), the whole hours of the        *)
(* magnitude and " Hours", followed by the remaining whole minutes and     *)
(* " Minutes" unless these are 0; 28800 gives "+8 Hours" and 12600 gives   *)
(* "+3 Hours 30 Minutes".  Checked of the text the label shows and of the  *)
(* text of every pair of zones, for every offset SpecFormat draws.         *)
TheoremC2 ==
    /\ center_diff_label.text
         = PrescribedText(SignedSeconds(left_clock.tzname, right_clock.tzname))
    /\ \A A, B \in ZonesCompared :
          /\ _format_signed_diff_text(SignedSeconds(A, B))
               = PrescribedText(SignedSeconds(A, B))
          /\ SignedSeconds(A, B) = 28800
               => _format_signed_diff_text(SignedSeconds(A, B)) = "+8 Hours"
          /\ SignedSeconds(A, B) = 12600
               => _format_signed_diff_text(SignedSeconds(A, B)) = "+3 Hours 30 Minutes"

\* The label shows "+3 Hours 30 Minutes" for a difference of 12600 seconds.
WitnessC2 ==
    /\ SignedSeconds(left_clock.tzname, right_clock.tzname) = 12600
    /\ center_diff_label.text = "+3 Hours 30 Minutes"

-----------------------------------------------------------------------------
(* C7.  The delta is antisymmetric: for every pair of zones A and B in one *)
(* state, the delta with left = A and right = B is the negation of the     *)
(* delta with left = B and right = A, and the two texts are equal but for  *)
(* their sign character: "+" against "-", or none in both when the delta   *)
(* is 0.                                                                   *)
TheoremC7 ==
    \A A, B \in ZonesCompared :
        /\ DeltaFor(A, B) = -DeltaFor(B, A)
        /\ Unsigned(TextFor(A, B)) = Unsigned(TextFor(B, A))
        /\ DeltaFor(A, B) > 0 => SignOf(TextFor(A, B)) = "+" /\ SignOf(TextFor(B, A)) = "-"
        /\ DeltaFor(A, B) = 0 => SignOf(TextFor(A, B)) = "" /\ SignOf(TextFor(B, A)) = ""

\* The label shows "-5 Hours 30 Minutes"; with the zones exchanged it would
\* show "+5 Hours 30 Minutes".
WitnessC7 ==
    /\ center_diff_label.text = "-5 Hours 30 Minutes"
    /\ DeltaFor(left_clock.tzname, right_clock.tzname) = -19800
    /\ TextFor(right_clock.tzname, left_clock.tzname) = "+5 Hours 30 Minutes"

-----------------------------------------------------------------------------
(* C8.  Round trip: the sign, hours and minutes read back from the text of *)
(* a difference, recombined as sign * (hours * 3600 + minutes * 60), give  *)
(* the difference back when it is a multiple of 60, and otherwise a value  *)
(* less than 60 seconds from it and never of the opposite sign; the sign   *)
(* read back is the sign of the difference.                                *)
TheoremC8 ==
    /\ ParseDiffText(center_diff_label.text).ok
    /\ Abs(Recombined(ParseDiffText(center_diff_label.text))
           - SignedSeconds(left_clock.tzname, right_clock.tzname)) < 60
    /\ \A A, B \in ZonesCompared :
          \A s \in {SignedSeconds(A, B)} :
          \A p \in {ParseDiffText(_format_signed_diff_text(s))} :
              /\ p.ok
              /\ s % 60 = 0 => Recombined(p) = s
              /\ Abs(Recombined(p) - s) < 60
              /\ s >= 0 => Recombined(p) >= 0
              /\ s <= 0 => Recombined(p) <= 0
              /\ p.sign = (IF s > 0 THEN 1 ELSE IF s < 0 THEN -1 ELSE 0)

\* The label shows a difference of -1 hour 1 minute and 1 second, which is
\* read back as -3660 seconds.
WitnessC8 ==
    /\ SignedSeconds(left_clock.tzname, right_clock.tzname) = -3661
    /\ center_diff_label.text = "-1 Hours 1 Minutes"
    /\ Recombined(ParseDiffText(center_diff_label.text)) = -3660

-----------------------------------------------------------------------------
(* Hands.  Angles are in 1/120 degree, of the time of day that the names   *)
(* of the stored doubles stand for: the name of minute counts seconds and  *)
(* the name of hour counts seconds, so that the angles are integers.       *)

FullCircle == 360 * 120

\* hour * 30 degrees.
HourAngle(self) == (self.hour * 30 * 120) \div 3600

\* minute * 6 degrees.
MinuteAngle(self) == (self.minute * 6 * 120) \div 60

\* second * 6 degrees.
SecondAngle(self) == self.second * 6 * 120

\* The local time h:m:s in the zone a clock shows: the zone's own when it
\* resolves, and UTC when it does not.
LocalTime(self) ==
    LET t == (utc_now + ZoneOffset(self.tzname)) % 86400
    IN  [h |-> t \div 3600, m |-> (t \div 60) % 60, s |-> t % 60]

-----------------------------------------------------------------------------
(* C5.  Through the 24-hour sweep, second by second, the three angles of   *)
(* the stored state lie in [0, 360) degrees, the hour angle of a clock     *)
(* that shows a time of hour 0 lies in [0, 30) degrees, and from each      *)
(* second to the next the hour angle strictly increases, except at the     *)
(* 12-hour wrap, where it returns from its last value to 0.                *)
AnglesInRange(self) ==
    /\ HourAngle(self) >= 0   /\ HourAngle(self) < FullCircle
    /\ MinuteAngle(self) >= 0 /\ MinuteAngle(self) < FullCircle
    /\ SecondAngle(self) >= 0 /\ SecondAngle(self) < FullCircle
    /\ UpToDate(self) /\ LocalTime(self).h = 0 => HourAngle(self) < 30 * 120

HourAngleAdvances(old, new) ==
    new # old =>
        \/ HourAngle(new) > HourAngle(old)
        \/ HourAngle(new) = 0 /\ HourAngle(old) = FullCircle - 1

TheoremC5 ==
    /\ [](AnglesInRange(left_clock) /\ AnglesInRange(right_clock))
    /\ [][/\ HourAngleAdvances(left_clock, left_clock')
          /\ HourAngleAdvances(right_clock, right_clock')]_vars

\* The left clock has been fed local noon: its hour angle is back at 0.
WitnessC5 ==
    /\ UpToDate(left_clock)
    /\ LocalTime(left_clock) = [h |-> 12, m |-> 0, s |-> 0]
    /\ HourAngle(left_clock) = 0
    /\ utc_now > 0

-----------------------------------------------------------------------------
(* C6.  A clock that _update_time has fed the instant of local time h:m:s  *)
(* stores second = s, minute = m + s/60 and hour = (h mod 12) + minute/60, *)
(* so that the second angle is s*6 degrees, the minute angle (m + s/60)*6  *)
(* and the hour angle ((h mod 12) + minute/60)*30; at 00:00:00 the three   *)
(* angles are 0, and at 06:30:00 the hour angle is 195 degrees and the     *)
(* minute angle 180.                                                       *)
StoresLocalTime(self) ==
    LET t == LocalTime(self)
    IN  /\ self.second = t.s
        /\ self.minute = 60 * t.m + t.s
        /\ self.hour = 3600 * (t.h % 12) + self.minute
        /\ SecondAngle(self) = t.s * 6 * 120
        /\ SecondAngle(self) % (6 * 120) = 0
        /\ MinuteAngle(self) = (60 * t.m + t.s) * 12
        /\ HourAngle(self) = 3600 * (t.h % 12) + 60 * t.m + t.s
        /\ t = [h |-> 0, m |-> 0, s |-> 0]
             => HourAngle(self) = 0 /\ MinuteAngle(self) = 0 /\ SecondAngle(self) = 0
        /\ t = [h |-> 6, m |-> 30, s |-> 0]
             => HourAngle(self) = 195 * 120 /\ MinuteAngle(self) = 180 * 120

TheoremC6 ==
    /\ UpToDate(left_clock) => StoresLocalTime(left_clock)
    /\ UpToDate(right_clock) => StoresLocalTime(right_clock)

\* The left clock has been fed the local time 06:30:00 of its zone.
WitnessC6 ==
    /\ UpToDate(left_clock)
    /\ LocalTime(left_clock) = [h |-> 6, m |-> 30, s |-> 0]
    /\ ZoneOffset(left_clock.tzname) # 0
    /\ HourAngle(left_clock) = 195 * 120
    /\ MinuteAngle(left_clock) = 180 * 120

-----------------------------------------------------------------------------
(* The steps that are a completed call of _update_diff_label: the          *)
(* application's tick, and the two city handlers, which end with it.       *)
DiffLabelCall ==
    \/ DiffTick
    \/ \E friendly_label \in SpinnerValues : _on_left_city_change(friendly_label)
    \/ \E friendly_label \in SpinnerValues : _on_right_city_change(friendly_label)

\* The identifiers that cannot be resolved, by the cause.
ZoneInfoUnavailable == ~ZoneInfo
ZoneInfoFails(z) == ZoneInfo /\ tzdata[z] = "missing"
LookupFails(z) == ZoneInfo /\ tzdata[z] = "broken"
Unresolvable(z) == ZoneInfoUnavailable \/ ZoneInfoFails(z) \/ LookupFails(z)

\* The clock shows the UTC time of day of this instant.
ShowsUtc(self) ==
    /\ self.second = utc_now % 60
    /\ self.minute = utc_now % 3600
    /\ self.hour = utc_now % 43200

-----------------------------------------------------------------------------
(* C1, as stated.  After build and after every completed call of          *)
(* _on_left_city_change, _on_right_city_change or _update_diff_label, the  *)
(* text of center_diff_label is _format_signed_diff_text of the offset of  *)
(* the right clock's zone minus the offset of the left clock's zone, for   *)
(* the zones selected at that moment; the two offsets are those of one     *)
(* instant, either of the two at which the call reads the host clock.      *)
(* Built is the state build leaves.                                        *)
ShowsDelta(lbl, left, right, at) ==
    lbl.text = _format_signed_diff_text(ZoneOffsetAt(right.tzname, at)
                                        - ZoneOffsetAt(left.tzname, at))

LabelShowsDelta ==
    /\ [](Built => \E at \in Earlier(utcoffset) :
                      ShowsDelta(center_diff_label, left_clock, right_clock, at))
    /\ [][DiffLabelCall =>
             \/ ShowsDelta(center_diff_label', left_clock', right_clock', utcoffset)
             \/ ShowsDelta(center_diff_label', left_clock', right_clock', utcoffset')]_vars

-----------------------------------------------------------------------------
(* C3, as stated.  For an identifier that cannot be resolved (ZoneInfo     *)
(* unavailable, ZoneInfo raising for the name, or the offset lookup        *)
(* raising), _resolve_tz returns None and _offset_seconds_for_tz returns   *)
(* 0, neither raising.                                                     *)
OriginalC3 ==
    \A z \in Zones :
        Unresolvable(z) =>
            /\ _resolve_tz(z).ret = None /\ ~_resolve_tz(z).exc
            /\ \A o \in {_offset_seconds_for_tz(z, utcoffset)} : o.ret = 0 /\ ~o.exc

(* C3, amended.  _resolve_tz returns None for an identifier when ZoneInfo  *)
(* is unavailable or raises for the name, and the tzinfo when only the     *)
(* offset lookup raises; in all three cases _offset_seconds_for_tz returns *)
(* 0 without raising, the clock's _update_time stores the UTC time of day  *)
(* without raising, and neither build nor any tick lets an exception reach *)
(* its caller.                                                             *)
TheoremC3 ==
    /\ \A z \in Zones :
          /\ ZoneInfoUnavailable \/ ZoneInfoFails(z)
               => _resolve_tz(z).ret = None /\ ~_resolve_tz(z).exc
          /\ LookupFails(z) => _resolve_tz(z).ret # None /\ ~_resolve_tz(z).exc
          /\ Unresolvable(z)
               => \A o \in {_offset_seconds_for_tz(z, utcoffset)} : o.ret = 0 /\ ~o.exc
    /\ Unresolvable(left_clock.tzname)
          => \A u \in {_update_time(left_clock, utc_now, utcoffset)} : ~u.exc /\ ShowsUtc(u.self)
    /\ Unresolvable(right_clock.tzname)
          => \A u \in {_update_time(right_clock, utc_now, utcoffset)} : ~u.exc /\ ShowsUtc(u.self)
    /\ ~raised

\* The left clock's zone resolves but its lookup raises; a second has passed
\* and the clock's tick has stored the UTC time of day and logged the failure.
WitnessC3 ==
    /\ LookupFails(left_clock.tzname)
    /\ utc_now # StartInstant
    /\ ShowsUtc(left_clock)
    /\ Logger.exception[left_clock.tzname] > 0
    /\ ~raised

-----------------------------------------------------------------------------
(* C4, as stated.  The diagnostic for an identifier that cannot be         *)
(* resolved is logged once per identifier and not on every tick: no tick   *)
(* of a clock or of the diff label logs a warning for an identifier for    *)
(* which one has been logged already.                                      *)
WarnedOncePerIdentifier ==
    [][DiffTick \/ LeftClockTick \/ RightClockTick =>
          \A z \in Zones :
              Logger.warning[z] >= 1 => Logger'.warning[z] = Logger.warning[z]]_vars

-----------------------------------------------------------------------------
(* C9.  A clock whose parent is None has had its timer cancelled and _evt  *)
(* cleared by on_parent; from then on no step changes its hour, minute or  *)
(* second, or schedules the timer again, whatever the host clock does.  A  *)
(* clock that has not been removed has its timer scheduled, and a tick of  *)
(* it is a call of _update_time: the clock then shows the current time.    *)
Frozen(old, new) ==
    old._evt = None =>
        /\ new._evt = None
        /\ new.hour = old.hour /\ new.minute = old.minute /\ new.second = old.second

TimerFollowsParent(self) ==
    /\ self.parent = None => self._evt = None
    /\ self.parent # None => self._evt # None

TheoremC9 ==
    /\ [](TimerFollowsParent(left_clock) /\ TimerFollowsParent(right_clock))
    /\ [][Frozen(left_clock, left_clock') /\ Frozen(right_clock, right_clock')]_vars
    /\ [][/\ left_clock.parent # None => ENABLED LeftClockTick
          /\ right_clock.parent # None => ENABLED RightClockTick
          /\ LeftClockTick => left_clock' = _update_time(left_clock, utc_now, utcoffset).self
          /\ RightClockTick => right_clock' = _update_time(right_clock, utc_now, utcoffset).self]_vars

\* The left clock was removed, a second has passed, and the right clock has
\* ticked since: the left clock still shows the second of its last tick.
WitnessC9 ==
    /\ left_clock.parent = None
    /\ left_clock._evt = None
    /\ utc_now # StartInstant
    /\ left_clock.second = StartInstant % 60
    /\ right_clock.parent # None
    /\ right_clock.second = utc_now % 60

-----------------------------------------------------------------------------
(* C10, as stated.  After build and after every completed                 *)
(* _update_diff_label, the sign of delta = offset(right) - offset(left),   *)
(* the two offsets being those of one instant, either of the two at which  *)
(* the call reads the host clock, decides the indicator: delta > 0, green  *)
(* label and green arrow of opacity 1; delta < 0, red label and red arrow  *)
(* of opacity 1; delta = 0, dark label and arrow of opacity 0; the arrow   *)
(* is visible exactly when delta # 0.  The arrow's direction is 'right' in *)
(* every reachable state.                                                  *)
ShowsSign(lbl, arrow, left, right, at) ==
    LET delta == ZoneOffsetAt(right.tzname, at) - ZoneOffsetAt(left.tzname, at)
    IN  /\ delta > 0 => /\ lbl.color = "BRIGHT_GREEN"
                        /\ arrow.color = "BRIGHT_GREEN"
                        /\ arrow.opacity = 1
        /\ delta < 0 => /\ lbl.color = "BRIGHT_RED"
                        /\ arrow.color = "BRIGHT_RED"
                        /\ arrow.opacity = 1
        /\ delta = 0 => /\ lbl.color = "DARK_TEXT"
                        /\ arrow.opacity = 0
        /\ arrow.opacity # 0 <=> delta # 0

IndicatorShowsSign ==
    /\ [](Built => \E at \in Earlier(utcoffset) :
                      ShowsSign(center_diff_label, center_arrow,
                                left_clock, right_clock, at))
    /\ [][DiffLabelCall =>
             \/ ShowsSign(center_diff_label', center_arrow',
                          left_clock', right_clock', utcoffset)
             \/ ShowsSign(center_diff_label', center_arrow',
                          left_clock', right_clock', utcoffset')]_vars
    /\ [](center_arrow.direction = "right")

-----------------------------------------------------------------------------
(* C11, as stated.  For every list of distinct identifiers passed to       *)
(* build_friendly_lists, the labels it produces are pairwise distinct, and *)
(* friendly_to_tz[tz_to_friendly[tz]] = tz for every identifier tz of the  *)
(* list.                                                                   *)
FriendlyLabelsDistinct ==
    friendly_lists.called =>
        LET tzs == friendly_lists.tzs
            ret == friendly_lists.ret
        IN  /\ \A i, j \in 1..Len(tzs) :
                  ret.friendly_values[i] = ret.friendly_values[j] => i = j
            /\ \A i \in 1..Len(tzs) :
                  ret.friendly_to_tz[ret.tz_to_friendly[tzs[i]]] = tzs[i]

-----------------------------------------------------------------------------
(* C12.  The stored values derive from one instant: minute - floor(minute) *)
(* == second/60 and hour - floor(hour) == minute/60, in doubles.           *)
SingleInstant(self) ==
    /\ Fraction(StoredMinute(self)) = FloatDiv60(StoredSecond(self))
    /\ Fraction(StoredHour(self)) = FloatDiv60(StoredMinute(self))

\* 0.f < 0.g, for bits f and g of one length.
BitsLess(f, g) ==
    \E i \in 1..Len(f) : f[i] < g[i] /\ \A j \in 1..(i - 1) : f[j] = g[j]

\* The bits of 0.f - 0.g, for bits f and g of one length with 0.g <= 0.f:
\* a position borrows when what follows it of f is less than that of g.
BitsMinus(f, g) ==
    LET borrow(i) == \E j \in (i + 1)..Len(f) :
                         f[j] < g[j] /\ \A k \in (i + 1)..(j - 1) : f[k] = g[k]
    IN  [i \in 1..Len(f) |-> (f[i] - g[i] - (IF borrow(i) THEN 1 ELSE 0) + 2) % 2]

\* |x - y| < 2^-k, for doubles x and y.
Within(x, y, k) ==
    LET n == IF Len(x.frac) < Len(y.frac) THEN Len(y.frac) ELSE Len(x.frac)
        f == [i \in 1..n |-> BitAt(x.frac, i)]
        g == [i \in 1..n |-> BitAt(y.frac, i)]
        d == IF BitsLess(f, g) THEN BitsMinus(g, f) ELSE BitsMinus(f, g)
    IN  /\ x.int = y.int
        /\ \A i \in 1..k : BitAt(d, i) = 0

\* The same, to within the rounding of the doubles: the two sides of each
\* equation differ by less than 2^-48.
SingleInstantRounded(self) ==
    /\ Within(Fraction(StoredMinute(self)), FloatDiv60(StoredSecond(self)), Mantissa - 5)
    /\ Within(Fraction(StoredHour(self)), FloatDiv60(StoredMinute(self)), Mantissa - 5)

\* The hands' endpoints were last computed from the values now stored.
DrawnFromStored(self) == self.drawn = <<self.hour, self.minute, self.second>>

(* C12, as stated.  At the end of every completed _update_time the three   *)
(* stored values derive from one instant, and the last hand endpoints      *)
(* drawn were computed from exactly these final values.                    *)
OriginalC12 ==
    [][/\ LeftClockTick
            => SingleInstant(left_clock') /\ DrawnFromStored(left_clock')
       /\ RightClockTick
            => SingleInstant(right_clock') /\ DrawnFromStored(right_clock')]_vars

(* C12, amended.  At the end of every completed _update_time, in build and *)
(* on every tick, the three stored values derive from one instant, to      *)
(* within the rounding of the doubles (minute - floor(minute) and          *)
(* second/60, and hour - floor(hour) and minute/60, differ by less than    *)
(* 2^-48); when the face has room (its diameter is positive) the last hand *)
(* endpoints drawn were computed from exactly these final values, and when *)
(* it has none _update_hands returns before drawing and the endpoints stay *)
(* those of the draw before.                                               *)
HandsAfterUpdate(old, new) ==
    /\ SingleInstantRounded(new)
    /\ Diameter(new) > 0 => DrawnFromStored(new)
    /\ Diameter(new) <= 0 => new.drawn = old.drawn

TheoremC12 ==
    /\ [](Built => /\ SingleInstantRounded(left_clock) /\ DrawnFromStored(left_clock)
                   /\ SingleInstantRounded(right_clock) /\ DrawnFromStored(right_clock))
    /\ [][/\ LeftClockTick => HandsAfterUpdate(left_clock, left_clock')
          /\ RightClockTick => HandsAfterUpdate(right_clock, right_clock')]_vars

\* A second has passed and both clocks have ticked: the left one has room,
\* its hands were drawn from the new hour, minute and second, and its stored
\* minute and second satisfy the equation only to within the rounding; the
\* right one has no room and its hands are those of the second before.
WitnessC12 ==
    /\ utc_now \notin HandsStarts
    /\ Diameter(left_clock) > 0
    /\ UpToDate(left_clock) /\ DrawnFromStored(left_clock)
    /\ ~SingleInstant(left_clock) /\ SingleInstantRounded(left_clock)
    /\ Diameter(right_clock) = 0
    /\ UpToDate(right_clock) /\ right_clock.drawn # <<>>
    /\ ~DrawnFromStored(right_clock)

====
